---------------------------- MODULE Spec2Model ----------------------------
(***************************************************************************)
(* Contrastive sentence-embedding training (SimCSE style): the pair        *)
(* datasets (plain, word repetition, EDA), the distributed embedding       *)
(* gather, the sentence-level and token-level contrastive losses, the      *)
(* contrastive forward pass, the pooler and the training-file arguments.   *)
(*                                                                         *)
(* The datasets (simcse/data/dataset.py) are modelled from the            *)
(* specification (sections 4.1, 4.2) and from what                         *)
(* tests/simcse/data/test_dataset.py records of them.  Everything else is  *)
(* modelled from simcse/models.py and src/scripts/run_train.py.            *)
(***************************************************************************)
EXTENDS Integers, Sequences, FiniteSets, Bags, TLC

VARIABLES
  \* ---- pair datasets --------------------------------------------------
  kind,        \* dataset variant: "plain" | "rep" | "eda"
  corpus,      \* sequence of sentences; a sentence is a sequence of words
  max_seq_length,
  dup_rate,    \* duplication ratio, in units of 1/RatioDen
  seed,        \* the seed both runs give the random generator
  rng,         \* run -> state of the run's random generator
  out,         \* run -> sequence of the items get(0), get(1), ... returned
  rec,         \* items the recorded test run has returned so far
  \* ---- sentence-level loss across processes -----------------------------
  world_size,        \* number of processes (calls, outside a process group)
  dist_initialized,  \* dist.is_initialized()
  is_training,
  perm,        \* outside a process group: how rank k > 0 reorders the batch
  base1,       \* the anchor embeddings of the base batch, as indices of Vecs
  base2,       \* the variant embeddings of the base batch
  x1,          \* rank -> output1 of compute_loss_simclr (pooled anchor rows)
  x2,          \* rank -> output2 (pooled variant rows)
  contrib,     \* collective -> rank -> the tensor the rank handed over
  pc,          \* rank -> where the process is in compute_loss_simclr
  sim,         \* rank -> similarity matrix
  labels,      \* rank -> labels
  loss,        \* rank -> loss
  \* ---- contrastive forward pass, token-level loss -----------------------
  input_ids,   \* example -> <<anchor ids, variant ids>>
  attention_mask,        \* example -> <<anchor mask, variant mask>>
  output_hidden_states,  \* the encoder's config.output_hidden_states
  pairs_given, \* pairs is not None
  pairs,       \* example -> sequence of <<p, q>>
  loss_token,  \* model_args.loss_token
  caller,      \* "cl_forward", or "direct": compute_loss_simclr_token called
               \* on its own
  fpc,         \* where cl_forward is
  encoder_calls,
  outputs,     \* <<outputs1, outputs2>> of compute_representation, or <<>>
  tpc,         \* where compute_loss_simclr_token is
  records,     \* the pair records after indexing
  groups,      \* the per-token groups after the split
  tloss,       \* the token-level loss, <<>> while there is none
  floss,       \* the loss cl_forward returns, <<>> while there is none
  error,       \* the exception raised, "" while there is none
  \* ---- configuration: training arguments and pooler --------------------
  train_file_given,  \* DataTrainingArguments.train_file is not None
  train_file,        \* the path, a sequence of characters
  pooler_type,       \* ModelArguments.pooler_type
  cpc,         \* where configuration is
  pooler,      \* the constructed Pooler, <<>> while there is none
  pooled,      \* what Pooler.forward returned, <<>> while there is nothing
  cfg_error    \* the exception configuration raised, "" while there is none

dataVars == <<kind, corpus, max_seq_length, dup_rate, seed, rng, out, rec>>

lossVars == <<world_size, dist_initialized, is_training, perm, base1, base2,
              x1, x2, contrib, pc, sim, labels, loss>>

fwdVars == <<input_ids, attention_mask, output_hidden_states, pairs_given,
             pairs, loss_token, caller, fpc,
             encoder_calls, outputs, tpc, records, groups, tloss, floss, error>>

cfgVars == <<train_file_given, train_file, pooler_type, cpc, pooler, pooled,
             cfg_error>>

vars == <<dataVars, lossVars, fwdVars, cfgVars>>

-----------------------------------------------------------------------------
(* Generic helpers *)

Min(a, b) == IF a < b THEN a ELSE b

Max(a, b) == IF a > b THEN a ELSE b

\* ceil(a / b) for a >= 0, b > 0
CeilDiv(a, b) == (a + b - 1) \div b

RECURSIVE SumSeq(_)
SumSeq(s) == IF s = <<>> THEN 0 ELSE Head(s) + SumSeq(Tail(s))

RECURSIVE IsSubseq(_, _)
\* s occurs in t as a subsequence (its elements, in order, not nec. adjacent)
IsSubseq(s, t) ==
  IF s = <<>> THEN TRUE
  ELSE IF t = <<>> THEN FALSE
  ELSE IF Head(s) = Head(t) THEN IsSubseq(Tail(s), Tail(t))
  ELSE IsSubseq(s, Tail(t))

\* the k-th smallest element (k = 0 is the smallest) of a finite set of integers
KthOf(S, k) == CHOOSE x \in S : Cardinality({y \in S : y < x}) = k

-----------------------------------------------------------------------------
(* Bounds of the model *)

MaxWords == 3        \* words per generic sentence
CorpusLen == 2       \* sentences per generic corpus
MinSeqLen == 4       \* smallest max_seq_length tried
MaxSeqLen == 5       \* largest small max_seq_length tried
RatioDen == 2        \* dup_rate is dup_rate / RatioDen
MaxSeed == 1         \* seeds 0 .. MaxSeed
RngMod == 16         \* the modelled generator has RngMod states

-----------------------------------------------------------------------------
(* The tokenizer boundary (external): special ids as the recorded views     *)
(* show them, a word being the sequence of its sub-word ids                 *)

bos_token_id == 0
pad_token_id == 1
eos_token_id == 2

RECURSIVE Flatten(_)
Flatten(words) ==
  IF words = <<>> THEN <<>> ELSE Head(words) \o Flatten(Tail(words))

\* tokenizer.tokenize: the sub-word ids of a whitespace-delimited sentence
Tokenize(sentence) == Flatten(sentence)

\* (a variant that pads but never truncates)
EncodeNoTruncation(tokens, L) ==
  LET real == <<bos_token_id>> \o tokens \o <<eos_token_id>>
      pad  == Max(0, L - Len(real))
  IN  [input_ids      |-> real \o [i \in 1..pad |-> pad_token_id],
       attention_mask |-> [i \in 1..Len(real) |-> 1] \o [i \in 1..pad |-> 0]]

\* encode_plus(padding="max_length", truncation=True, max_length=L) over
\* sub-word ids: truncate to L - 2, add <s> and </s>, right-pad with <pad>
Encode(tokens, L) ==
  LET body == SubSeq(tokens, 1, Min(Len(tokens), L - 2))
      real == <<bos_token_id>> \o body \o <<eos_token_id>>
  IN  [input_ids      |-> real \o [i \in 1..(L - Len(real)) |-> pad_token_id],
       attention_mask |-> [i \in 1..Len(real) |-> 1]
                            \o [i \in 1..(L - Len(real)) |-> 0]]

\* the sub-word ids a view holds between <s> and </s>
RealTokens(view) ==
  SubSeq(view.input_ids, 2, SumSeq(view.attention_mask) - 1)

-----------------------------------------------------------------------------
(* The random generator (Python's random, seeded once per run): a full-    *)
(* period congruential generator stands for it                             *)

\* random.seed(s)
Seed(s) == (7 * s + 5) % RngMod

Advance(g) == (5 * g + 3) % RngMod

\* a draw in 0 .. n-1 from state g (n > 0)
Draw(g, n) == (g \div 2) % n

-----------------------------------------------------------------------------
(* Each part of the program runs with the others at rest *)

Runs == {"a", "b", "c"}

DataIdle ==
  /\ kind = "plain" /\ corpus = <<>> /\ max_seq_length = 0
  /\ dup_rate = 0 /\ seed = 0
  /\ rng = [run \in Runs |-> 0] /\ out = [run \in Runs |-> <<>>] /\ rec = <<>>

LossIdle ==
  /\ world_size = 0 /\ dist_initialized = FALSE /\ is_training = FALSE
  /\ perm = <<>> /\ base1 = <<>> /\ base2 = <<>>
  /\ x1 = <<>> /\ x2 = <<>> /\ contrib = <<>> /\ pc = <<>>
  /\ sim = <<>> /\ labels = <<>> /\ loss = <<>>

FwdIdle ==
  /\ input_ids = <<>> /\ attention_mask = <<>> /\ output_hidden_states = FALSE
  /\ pairs_given = FALSE /\ pairs = <<>>
  /\ loss_token = FALSE /\ caller = "" /\ fpc = "idle" /\ encoder_calls = 0
  /\ outputs = <<>> /\ tpc = "idle" /\ records = <<>> /\ groups = <<>>
  /\ tloss = <<>> /\ floss = <<>> /\ error = ""

CfgIdle ==
  /\ train_file_given = FALSE /\ train_file = <<>> /\ pooler_type = ""
  /\ cpc = "idle" /\ pooler = <<>> /\ pooled = <<>> /\ cfg_error = ""

-----------------------------------------------------------------------------
(* Text augmenters (specification 4.1) *)

\* Identity ("SimCSE"): the tokenization verbatim
Identity(s) == s

RECURSIVE RepeatAtShifted(_, _)
\* (a variant that looks each chosen position up in the list as already
\* lengthened by the earlier insertions)
RepeatAtShifted(s, D) ==
  IF D = {} THEN s
  ELSE LET p == KthOf(D, 0)
       IN  RepeatAtShifted(SubSeq(s, 1, p) \o <<s[p]>> \o SubSeq(s, p + 1, Len(s)),
                           D \ {p})

RECURSIVE RepeatFrom(_, _, _)
RepeatFrom(s, D, i) ==
  IF i > Len(s) THEN <<>>
  ELSE (IF i \in D THEN <<s[i], s[i]>> ELSE <<s[i]>>) \o RepeatFrom(s, D, i + 1)

\* Word repetition: a duplicate of each chosen token right after its original
\* occurrence, the positions D taken in ascending original order
RepeatAt(s, D) == RepeatFrom(s, D, 1)

\* the number of positions the ratio allows: ceil(r * len)
DupLen(n, r) == CeilDiv(r * n, RatioDen)

RECURSIVE Choices(_, _, _)
\* k positions of 1..n drawn one after another, with replacement:
\* <<the positions chosen, g'>>
Choices(g, n, k) ==
  IF k = 0 \/ n = 0 THEN <<{}, g>>
  ELSE LET rest == Choices(Advance(g), n, k - 1)
       IN  <<{Draw(g, n) + 1} \cup rest[1], rest[2]>>

\* Word repetition with the generator: k = ceil(r * len) positions are
\* chosen, and each chosen token is doubled.  <<augmented, g'>>
Repetition(g, s, r) ==
  LET pick == Choices(g, Len(s), DupLen(Len(s), r))
  IN  <<RepeatAt(s, pick[1]), pick[2]>>

\* remove the element at position p
DeleteAt(s, p) == SubSeq(s, 1, p - 1) \o SubSeq(s, p + 1, Len(s))

\* insert x so that it stands at position p
InsertAt(s, p, x) == SubSeq(s, 1, p - 1) \o <<x>> \o SubSeq(s, p, Len(s))

SwapAt(s, p, q) == [s EXCEPT ![p] = s[q], ![q] = s[p]]

\* EDA: exactly one of four operations, chosen by the generator, on the raw
\* words.  <<augmented, g'>>
EDA(g, words) ==
  LET op == Draw(g, 4)
      g1 == Advance(g)
      g2 == Advance(g1)
      n  == Len(words)
  IN  CASE op = 0 -> <<words, g1>>                       \* substitution placeholder
        [] op = 1 -> IF n <= 1 THEN <<words, g1>>        \* random deletion
                     ELSE <<DeleteAt(words, Draw(g1, n) + 1), g2>>
        [] op = 2 -> IF n = 0 THEN <<words, g1>>         \* random insertion
                     ELSE <<InsertAt(words, Draw(g2, n + 1) + 1,
                                     words[Draw(g1, n) + 1]), Advance(g2)>>
        [] OTHER  -> IF n <= 1 THEN <<words, g1>>        \* random swap
                     ELSE <<SwapAt(words, Draw(g1, n) + 1, Draw(g2, n) + 1),
                            Advance(g2)>>

-----------------------------------------------------------------------------
(* Pair datasets (specification 4.2): get(i) as <<item, g'>>.  An item holds *)
(* the two encoded views and, for reference, the sub-word ids before (src)   *)
(* and after (aug) augmentation                                              *)

Item(src, aug, L) ==
  [anchor |-> Encode(src, L), variant |-> Encode(aug, L), src |-> src, aug |-> aug]

\* (a variant of the plain dataset that augments its second view)
SimCSEDatasetAugmenting(g, sentence, L) ==
  <<Item(Tokenize(sentence), RepeatAt(Tokenize(sentence), {1}), L), g>>

SimCSEDataset(g, sentence, L) ==
  <<Item(Tokenize(sentence), Identity(Tokenize(sentence)), L), g>>

ESimCSEDataset(g, sentence, L, r) ==
  LET rep == Repetition(g, Tokenize(sentence), r)
  IN  <<Item(Tokenize(sentence), rep[1], L), rep[2]>>

EDASimCSEDataset(g, sentence, L) ==
  LET eda == EDA(g, sentence)
  IN  <<Item(Tokenize(sentence), Tokenize(eda[1]), L), eda[2]>>

GetItem(k, g, sentence, L, r) ==
  CASE k = "plain" -> SimCSEDataset(g, sentence, L)
    [] k = "rep"   -> ESimCSEDataset(g, sentence, L, r)
    [] OTHER       -> EDASimCSEDataset(g, sentence, L)

Size == Len(corpus)

-----------------------------------------------------------------------------
(* The corpus and the views tests/simcse/data/test_dataset.py records *)

\* corpus(): the three sentences, each word as its sub-word ids
TestCorpus ==
  << << <<4783>>, <<766>>, <<16>>, <<842, 41860, 4717, 261>> >>,
     << <<9178>>, <<32>>, <<47, 116>> >>,
     << <<118, 437>>, <<2051>>, <<3392>>, <<47, 4>>, <<8>>, <<47, 116>> >> >>

TestMaxLength == 32

TestSeed == 0

true_dataset_esimcse ==
  <<
   [anchor  |-> [input_ids |-> <<0, 4783, 766, 16, 842, 41860, 4717, 261, 2, 1, 1, 1, 1, 1, 1, 1, 1, 1, 1, 1, 1, 1, 1, 1, 1, 1, 1, 1, 1, 1, 1, 1>>,
                 attention_mask |-> <<1, 1, 1, 1, 1, 1, 1, 1, 1, 0, 0, 0, 0, 0, 0, 0, 0, 0, 0, 0, 0, 0, 0, 0, 0, 0, 0, 0, 0, 0, 0, 0>>],
    variant |-> [input_ids |-> <<0, 4783, 4783, 766, 16, 842, 842, 41860, 4717, 261, 261, 2, 1, 1, 1, 1, 1, 1, 1, 1, 1, 1, 1, 1, 1, 1, 1, 1, 1, 1, 1, 1>>,
                 attention_mask |-> <<1, 1, 1, 1, 1, 1, 1, 1, 1, 1, 1, 1, 0, 0, 0, 0, 0, 0, 0, 0, 0, 0, 0, 0, 0, 0, 0, 0, 0, 0, 0, 0>>]],
   [anchor  |-> [input_ids |-> <<0, 9178, 32, 47, 116, 2, 1, 1, 1, 1, 1, 1, 1, 1, 1, 1, 1, 1, 1, 1, 1, 1, 1, 1, 1, 1, 1, 1, 1, 1, 1, 1>>,
                 attention_mask |-> <<1, 1, 1, 1, 1, 1, 0, 0, 0, 0, 0, 0, 0, 0, 0, 0, 0, 0, 0, 0, 0, 0, 0, 0, 0, 0, 0, 0, 0, 0, 0, 0>>],
    variant |-> [input_ids |-> <<0, 9178, 32, 47, 116, 116, 2, 1, 1, 1, 1, 1, 1, 1, 1, 1, 1, 1, 1, 1, 1, 1, 1, 1, 1, 1, 1, 1, 1, 1, 1, 1>>,
                 attention_mask |-> <<1, 1, 1, 1, 1, 1, 1, 0, 0, 0, 0, 0, 0, 0, 0, 0, 0, 0, 0, 0, 0, 0, 0, 0, 0, 0, 0, 0, 0, 0, 0, 0>>]],
   [anchor  |-> [input_ids |-> <<0, 118, 437, 2051, 3392, 47, 4, 8, 47, 116, 2, 1, 1, 1, 1, 1, 1, 1, 1, 1, 1, 1, 1, 1, 1, 1, 1, 1, 1, 1, 1, 1>>,
                 attention_mask |-> <<1, 1, 1, 1, 1, 1, 1, 1, 1, 1, 1, 0, 0, 0, 0, 0, 0, 0, 0, 0, 0, 0, 0, 0, 0, 0, 0, 0, 0, 0, 0, 0>>],
    variant |-> [input_ids |-> <<0, 118, 437, 2051, 2051, 3392, 47, 47, 4, 8, 47, 47, 116, 2, 1, 1, 1, 1, 1, 1, 1, 1, 1, 1, 1, 1, 1, 1, 1, 1, 1, 1>>,
                 attention_mask |-> <<1, 1, 1, 1, 1, 1, 1, 1, 1, 1, 1, 1, 1, 1, 0, 0, 0, 0, 0, 0, 0, 0, 0, 0, 0, 0, 0, 0, 0, 0, 0, 0>>]]
  >>

true_dataset_edasimcse ==
  <<
   [anchor  |-> [input_ids |-> <<0, 4783, 766, 16, 842, 41860, 4717, 261, 2, 1, 1, 1, 1, 1, 1, 1, 1, 1, 1, 1, 1, 1, 1, 1, 1, 1, 1, 1, 1, 1, 1, 1>>,
                 attention_mask |-> <<1, 1, 1, 1, 1, 1, 1, 1, 1, 0, 0, 0, 0, 0, 0, 0, 0, 0, 0, 0, 0, 0, 0, 0, 0, 0, 0, 0, 0, 0, 0, 0>>],
    variant |-> [input_ids |-> <<0, 4783, 766, 842, 41860, 4717, 261, 16, 2, 1, 1, 1, 1, 1, 1, 1, 1, 1, 1, 1, 1, 1, 1, 1, 1, 1, 1, 1, 1, 1, 1, 1>>,
                 attention_mask |-> <<1, 1, 1, 1, 1, 1, 1, 1, 1, 0, 0, 0, 0, 0, 0, 0, 0, 0, 0, 0, 0, 0, 0, 0, 0, 0, 0, 0, 0, 0, 0, 0>>]],
   [anchor  |-> [input_ids |-> <<0, 9178, 32, 47, 116, 2, 1, 1, 1, 1, 1, 1, 1, 1, 1, 1, 1, 1, 1, 1, 1, 1, 1, 1, 1, 1, 1, 1, 1, 1, 1, 1>>,
                 attention_mask |-> <<1, 1, 1, 1, 1, 1, 0, 0, 0, 0, 0, 0, 0, 0, 0, 0, 0, 0, 0, 0, 0, 0, 0, 0, 0, 0, 0, 0, 0, 0, 0, 0>>],
    variant |-> [input_ids |-> <<0, 9178, 32, 47, 2, 1, 1, 1, 1, 1, 1, 1, 1, 1, 1, 1, 1, 1, 1, 1, 1, 1, 1, 1, 1, 1, 1, 1, 1, 1, 1, 1>>,
                 attention_mask |-> <<1, 1, 1, 1, 1, 0, 0, 0, 0, 0, 0, 0, 0, 0, 0, 0, 0, 0, 0, 0, 0, 0, 0, 0, 0, 0, 0, 0, 0, 0, 0, 0>>]],
   [anchor  |-> [input_ids |-> <<0, 118, 437, 2051, 3392, 47, 4, 8, 47, 116, 2, 1, 1, 1, 1, 1, 1, 1, 1, 1, 1, 1, 1, 1, 1, 1, 1, 1, 1, 1, 1, 1>>,
                 attention_mask |-> <<1, 1, 1, 1, 1, 1, 1, 1, 1, 1, 1, 0, 0, 0, 0, 0, 0, 0, 0, 0, 0, 0, 0, 0, 0, 0, 0, 0, 0, 0, 0, 0>>],
    variant |-> [input_ids |-> <<0, 757, 2051, 3392, 8, 47, 2, 1, 1, 1, 1, 1, 1, 1, 1, 1, 1, 1, 1, 1, 1, 1, 1, 1, 1, 1, 1, 1, 1, 1, 1, 1>>,
                 attention_mask |-> <<1, 1, 1, 1, 1, 1, 1, 0, 0, 0, 0, 0, 0, 0, 0, 0, 0, 0, 0, 0, 0, 0, 0, 0, 0, 0, 0, 0, 0, 0, 0, 0>>]]
  >>

-----------------------------------------------------------------------------
(* Inputs of the dataset runs *)

WordA == <<11>>
WordB == <<12, 13>>

Sentences ==
  UNION {[1..n -> {WordA, WordB}] : n \in 1..MaxWords}

\* a corpus of CorpusLen lines, given by its first sentence: line i is the
\* first sentence with i - 1 further words WordB in front
CorpusOf(s) ==
  [i \in 1..CorpusLen |-> [j \in 1..(i - 1) |-> WordB] \o s]

\* runs a and b seed the generator alike, run c differently
SeedOf(run) == IF run = "c" THEN seed + 1 ELSE seed

\* (a variant in which run b reads the generator run a is using, as when the
\* generator is ambient state that is never reseeded)
SharedGenerator(run) == IF run = "b" THEN rng["a"] ELSE rng[run]

\* the generator state get() consumes in a run
GeneratorOf(run) == rng[run]

DataInit ==
  /\ kind \in {"plain", "rep", "eda"}
  /\ \/ /\ corpus \in {CorpusOf(s) : s \in Sentences}
        /\ max_seq_length \in MinSeqLen..MaxSeqLen
     \/ /\ corpus = TestCorpus
        /\ max_seq_length = TestMaxLength
  /\ dup_rate \in 0..RatioDen
  /\ seed \in 0..MaxSeed
  /\ rng = [run \in Runs |-> Seed(SeedOf(run))]
  /\ out = [run \in Runs |-> <<>>]
  /\ rec = <<>>
  /\ LossIdle
  /\ FwdIdle
  /\ CfgIdle

\* dataset[i] for the next i of a run; i outside [0, size()) is an index error
Get(run) ==
  /\ Len(out[run]) < Size
  /\ LET i   == Len(out[run]) + 1
         res == GetItem(kind, GeneratorOf(run), corpus[i], max_seq_length, dup_rate)
     IN  /\ out' = [out EXCEPT ![run] = Append(@, res[1])]
         /\ rng' = [rng EXCEPT ![run] = res[2]]
  /\ UNCHANGED <<kind, corpus, max_seq_length, dup_rate, seed, rec, lossVars, fwdVars, cfgVars>>

\* the run the tests record: random.seed(0), the test corpus, max_length 32,
\* ratio 0.5; dataset[i] is asserted equal to true_dataset[i]
TestGet ==
  /\ corpus = TestCorpus /\ max_seq_length = TestMaxLength /\ seed = TestSeed
  /\ kind \in {"rep", "eda"}
  /\ kind = "rep" => 2 * dup_rate = RatioDen
  /\ Len(rec) < Size
  /\ LET true == IF kind = "rep" THEN true_dataset_esimcse[Len(rec) + 1]
                 ELSE true_dataset_edasimcse[Len(rec) + 1]
     IN  rec' = Append(rec, [anchor |-> true.anchor, variant |-> true.variant,
                             src |-> RealTokens(true.anchor),
                             aug |-> RealTokens(true.variant)])
  /\ UNCHANGED <<kind, corpus, max_seq_length, dup_rate, seed, rng, out, lossVars, fwdVars, cfgVars>>

DataNext == (\E run \in Runs : Get(run)) \/ TestGet

-----------------------------------------------------------------------------
(* Properties of the pair datasets *)

ItemsOf(run) == {out[run][i] : i \in 1..Len(out[run])}

RecItems == {rec[i] : i \in 1..Len(rec)}

\* every item any run, or the recorded run, has returned
Items == UNION {ItemsOf(run) : run \in Runs} \cup RecItems

RECURSIVE IsRepetitionOf(_, _)
\* t is s with some of its elements doubled in place
IsRepetitionOf(t, s) ==
  IF s = <<>> THEN t = <<>>
  ELSE /\ t # <<>>
       /\ Head(t) = Head(s)
       /\ \/ IsRepetitionOf(Tail(t), Tail(s))
          \/ /\ Len(t) >= 2
             /\ t[2] = Head(s)
             /\ IsRepetitionOf(Tail(Tail(t)), Tail(s))

FixedLength(view, L) ==
  /\ Len(view.input_ids) = L
  /\ Len(view.attention_mask) = L
  /\ \E m \in 2..L :
       /\ \A i \in 1..L : view.attention_mask[i] = (IF i <= m THEN 1 ELSE 0)
       /\ \A i \in (m + 1)..L : view.input_ids[i] = pad_token_id
       /\ view.input_ids[1] = bos_token_id
       /\ view.input_ids[m] = eos_token_id

\* the ids between <s> and </s> are tokens, or its first L - 2 when it is longer
PaddedOrTruncated(view, tokens, L) ==
  RealTokens(view) = SubSeq(tokens, 1, Min(Len(tokens), L - 2))

\* C2: both views of every item of every dataset variant have exactly
\* max_seq_length input ids and mask entries: shorter tokenizations are
\* right-padded with the pad id under mask 0, longer ones truncated, the
\* augmented view included.
C2_FixedLength ==
  \A it \in Items :
    /\ FixedLength(it.anchor, max_seq_length)
    /\ FixedLength(it.variant, max_seq_length)
    /\ PaddedOrTruncated(it.anchor, it.src, max_seq_length)
    /\ PaddedOrTruncated(it.variant, it.aug, max_seq_length)

\* some view is padded, some anchor is truncated, and some variant is
\* truncated only because augmentation lengthened it
C2_Witness ==
  /\ kind # "plain"
  /\ \E it \in Items : Len(it.src) + 2 < max_seq_length
  /\ \E it \in Items : Len(it.src) + 2 > max_seq_length
  /\ \E it \in Items :
       /\ Len(it.src) + 2 <= max_seq_length
       /\ Len(it.aug) + 2 > max_seq_length

\* C3: in the plain dataset both views of get(i) are the fixed-length
\* tokenization of corpus[i], identical in ids and mask, and the dataset has
\* as many items as the corpus has lines.
C3_PlainIdentical ==
  kind = "plain" =>
    \A run \in Runs :
      /\ Len(out[run]) <= Len(corpus)
      /\ (~ ENABLED Get(run)) => Len(out[run]) = Len(corpus)
      /\ \A i \in 1..Len(out[run]) :
           /\ out[run][i].anchor = Encode(Tokenize(corpus[i]), max_seq_length)
           /\ out[run][i].variant.input_ids = out[run][i].anchor.input_ids
           /\ out[run][i].variant.attention_mask = out[run][i].anchor.attention_mask
           /\ corpus = TestCorpus =>
                out[run][i].anchor = true_dataset_esimcse[i].anchor

\* a plain run over a corpus with a truncated line is complete
C3_Witness ==
  /\ kind = "plain"
  /\ \E run \in Runs :
       /\ Len(out[run]) = Len(corpus)
       /\ \E i \in 1..Len(corpus) : Len(Tokenize(corpus[i])) + 2 > max_seq_length

-----------------------------------------------------------------------------
(* Sentence-level loss and the distributed gather (simcse/models.py) *)

MaxWorld == 2        \* processes 0 .. world_size - 1, world_size <= MaxWorld
MaxBatch == 2        \* local examples per process

\* ModelArguments.temp, in hundredths (default 0.05)
temp == 5

\* the embedding values local batches are drawn from
Vecs == << <<1, 0>>, <<0, 1>>, <<1, 1>> >>

Ranks == 0..(world_size - 1)

\* an embedding row: its value, and whether it is the process's own tensor
\* (through which gradients flow) or a copy a collective delivered
Own(v) == [v |-> v, grad |-> TRUE]

Received(row) == [v |-> row.v, grad |-> FALSE]

Zero(row) == [v |-> [i \in 1..Len(row.v) |-> 0], grad |-> FALSE]

\* the local batch of rank k: in a process group every rank holds examples of
\* its own; outside one, rank k > 0 holds rank 0's batch reordered by perm
LocalBatch(base, k) ==
  IF dist_initialized
  THEN [i \in 1..Len(base) |-> Own(<<Vecs[base[i]][1] + 2 * k, Vecs[base[i]][2] + k>>)]
  ELSE IF k = 0 THEN [i \in 1..Len(base) |-> Own(Vecs[base[i]])]
  ELSE [i \in 1..Len(base) |-> Own(Vecs[base[perm[i]]])]

Perms(n) == Permutations(1..n)

RECURSIVE Cat(_, _)
\* torch.cat(xlist, dim=0) over the ranks k, k + 1, ..., world_size - 1
Cat(xlist, k) == IF k >= world_size THEN <<>> ELSE xlist[k] \o Cat(xlist, k + 1)

\* rank k has called collective c (1: the anchor view, 2: the variant view)
Entered(c, k) == contrib[c][k] # <<>>

\* (a variant that lets a caller go on once its own tensor is handed over)
OwnEntered(c, r) == Entered(c, r)

\* dist.all_gather is a synchronous collective: it returns at rank r only when
\* every rank of the group has called it
AllEntered(c, r) == \A k \in Ranks : Entered(c, k)

\* (a variant that returns the collective's list as delivered)
DistAllGatherDelivered(r, c, x) ==
  LET xlist == [k \in Ranks |->
                  IF contrib[c][k] = <<>> THEN [i \in 1..Len(x) |-> Zero(x[i])]
                  ELSE [i \in 1..Len(contrib[c][k]) |-> Received(contrib[c][k][i])]]
  IN  Cat(xlist, 0)

\* dist_all_gather(x) at rank r, for collective c: the list starts as zeros,
\* all_gather fills it with what each rank contributed, the caller's own slot
\* is put back to x, and the list is concatenated
dist_all_gather(r, c, x) ==
  LET zeros == [k \in Ranks |-> [i \in 1..Len(x) |-> Zero(x[i])]]
      xlist == [k \in Ranks |->
                  IF contrib[c][k] = <<>> THEN zeros[k]
                  ELSE [i \in 1..Len(contrib[c][k]) |-> Received(contrib[c][k][i])]]
  IN  Cat([xlist EXCEPT ![r] = x], 0)

\* (a variant that gathers when not training)
ShouldGatherInverted == dist_initialized /\ ~ is_training

\* compute_loss_simclr gathers if dist.is_initialized() and is_training
ShouldGather == dist_initialized /\ is_training

Dot(u, v) == SumSeq([i \in 1..Len(u) |-> u[i] * v[i]])

RECURSIVE Gcd(_, _)
Gcd(a, b) == IF b = 0 THEN a ELSE Gcd(b, a % b)

\* F.cosine_similarity of two vectors, exactly: the sign of the cosine and its
\* square as a reduced fraction (0 when a vector is zero: the norm product is
\* clamped away from 0)
cosine_similarity(u, v) ==
  LET d == Dot(u, v)
      n == Dot(u, u) * Dot(v, v)
  IN  IF d = 0 \/ n = 0 THEN <<0, 0, 1>>
      ELSE LET g == Gcd(d * d, n)
           IN  <<IF d > 0 THEN 1 ELSE -1, (d * d) \div g, n \div g>>

\* sim = F.cosine_similarity(output1[None, :, :], output2[:, None, :], dim=2)
\* / temp: entry (i, j) compares output2[i] with output1[j]
SimMatrix(o1, o2) ==
  [i \in 1..Len(o2) |-> [j \in 1..Len(o1) |->
     [cos |-> cosine_similarity(o1[j].v, o2[i].v), temp |-> temp]]]

\* (a variant whose labels run backwards)
LabelsReversed(s) == [i \in 1..Len(s[1]) |-> Len(s[1]) - i]

\* labels = torch.arange(sim.shape[1]): 0, 1, ...
Labels(s) == [i \in 1..Len(s[1]) |-> i - 1]

RECURSIVE BagOfSeq(_)
BagOfSeq(s) ==
  IF s = <<>> THEN EmptyBag ELSE SetToBag({Head(s)}) (+) BagOfSeq(Tail(s))

\* F.cross_entropy(sim, labels), exactly: row i contributes
\* -sim[i][label] + log(sum_j exp(sim[i][j])), a function of the entry at the
\* label and of the entries of the row whatever their order; the loss is the
\* mean of the rows' terms, a function of the terms whatever their order
cross_entropy(s, l) ==
  BagOfSeq([i \in 1..Len(s) |->
              [positive |-> s[i][l[i] + 1], row |-> BagOfSeq(s[i])]])

LossInit ==
  /\ world_size \in 1..MaxWorld
  /\ dist_initialized \in BOOLEAN
  /\ is_training \in BOOLEAN
  /\ \E n \in 1..MaxBatch :
       /\ base1 \in [1..n -> 1..Len(Vecs)]
       /\ base2 \in [1..n -> 1..Len(Vecs)]
       /\ perm \in Perms(n)
       /\ dist_initialized => perm = [i \in 1..n |-> i]
  /\ x1 = [k \in Ranks |-> LocalBatch(base1, k)]
  /\ x2 = [k \in Ranks |-> LocalBatch(base2, k)]
  /\ contrib = [c \in {1, 2} |-> [k \in Ranks |-> <<>>]]
  /\ pc = [k \in Ranks |-> "pooled"]
  /\ sim = [k \in Ranks |-> <<>>]
  /\ labels = [k \in Ranks |-> <<>>]
  /\ loss = [k \in Ranks |-> <<>>]
  /\ DataIdle
  /\ FwdIdle
  /\ CfgIdle

\* dist_all_gather, first half: the process hands x.contiguous() to
\* dist.all_gather.  output1 is gathered first, then output2
AllGatherCall(r) ==
  /\ ShouldGather
  /\ \/ /\ pc[r] = "pooled"
        /\ contrib' = [contrib EXCEPT ![1][r] = x1[r]]
        /\ pc' = [pc EXCEPT ![r] = "in1"]
     \/ /\ pc[r] = "got1"
        /\ contrib' = [contrib EXCEPT ![2][r] = x2[r]]
        /\ pc' = [pc EXCEPT ![r] = "in2"]
  /\ UNCHANGED <<world_size, dist_initialized, is_training, perm, base1, base2,
                 x1, x2, sim, labels, loss, dataVars, fwdVars, cfgVars>>

\* dist_all_gather, second half: dist.all_gather returns, the own slot is
\* replaced and the list concatenated
AllGatherReturn(r) ==
  /\ ShouldGather
  /\ \/ /\ pc[r] = "in1"
        /\ AllEntered(1, r)
        /\ x1' = [x1 EXCEPT ![r] = dist_all_gather(r, 1, x1[r])]
        /\ pc' = [pc EXCEPT ![r] = "got1"]
        /\ UNCHANGED x2
     \/ /\ pc[r] = "in2"
        /\ AllEntered(2, r)
        /\ x2' = [x2 EXCEPT ![r] = dist_all_gather(r, 2, x2[r])]
        /\ pc' = [pc EXCEPT ![r] = "got2"]
        /\ UNCHANGED x1
  /\ UNCHANGED <<world_size, dist_initialized, is_training, perm, base1, base2,
                 contrib, sim, labels, loss, dataVars, fwdVars, cfgVars>>

\* the rest of compute_loss_simclr: similarity matrix, labels, cross entropy
ComputeLoss(r) ==
  /\ pc[r] = (IF ShouldGather THEN "got2" ELSE "pooled")
  /\ \E s \in {SimMatrix(x1[r], x2[r])} :
     \E l \in {Labels(s)} :
       /\ sim' = [sim EXCEPT ![r] = s]
       /\ labels' = [labels EXCEPT ![r] = l]
       /\ loss' = [loss EXCEPT ![r] = cross_entropy(s, l)]
  /\ pc' = [pc EXCEPT ![r] = "done"]
  /\ UNCHANGED <<world_size, dist_initialized, is_training, perm, base1, base2,
                 x1, x2, contrib, dataVars, fwdVars, cfgVars>>

LossNext ==
  \/ \E r \in Ranks : AllGatherCall(r)
  \/ \E r \in Ranks : AllGatherReturn(r)
  \/ \E r \in Ranks : ComputeLoss(r)

-----------------------------------------------------------------------------
(* Properties of the gather and of the sentence-level loss *)

BatchSize == Len(base1)

\* the process has returned from collective c
Gathered(r, c) ==
  IF c = 1 THEN pc[r] \in {"got1", "in2", "got2"} \/ (pc[r] = "done" /\ ShouldGather)
  ELSE pc[r] = "got2" \/ (pc[r] = "done" /\ ShouldGather)

Output(r, c) == IF c = 1 THEN x1[r] ELSE x2[r]

Local(k, c) == LocalBatch(IF c = 1 THEN base1 ELSE base2, k)

\* C5: dist_all_gather(x) at rank r returns one block per process in rank
\* order 0..W-1; block r is the caller's own tensor x (gradient-bearing),
\* every other block k is what rank k contributed, received as a copy; so
\* all processes hold the same row contents in the same order.
C5_GatherBlocks ==
  \A r \in Ranks, c \in {1, 2} :
    Gathered(r, c) =>
      /\ Len(Output(r, c)) = world_size * BatchSize
      /\ \A k \in Ranks, i \in 1..BatchSize :
           Output(r, c)[k * BatchSize + i] =
             [v |-> Local(k, c)[i].v, grad |-> (k = r)]
      /\ \A q \in Ranks :
           Gathered(q, c) =>
             [i \in 1..Len(Output(q, c)) |-> Output(q, c)[i].v]
               = [i \in 1..Len(Output(r, c)) |-> Output(r, c)[i].v]

\* two or more processes have all gathered both views
C5_Witness ==
  /\ world_size >= 2
  /\ BatchSize >= 2
  /\ \A r \in Ranks : Gathered(r, 2)
  /\ base1 # base2

\* C6: the gather is a cooperative barrier: no process returns from a gather
\* before every process has entered that gather, and every process enters
\* the anchor gather before the variant gather.
C6_Barrier ==
  /\ \A r \in Ranks, c \in {1, 2} :
       Gathered(r, c) => \A k \in Ranks : Entered(c, k)
  /\ \A k \in Ranks : Entered(2, k) => Entered(1, k) /\ Gathered(k, 1)
  /\ \A k \in Ranks : (pc[k] = "in1" => Entered(1, k)) /\ (pc[k] = "in2" => Entered(2, k))

\* one process is back from the variant gather while another still waits in it
C6_Witness ==
  \E r \in Ranks, k \in Ranks : r # k /\ pc[r] = "got2" /\ pc[k] = "in2"

\* the rows of the gathered ordering of view c: rank 0's, then rank 1's, ...
RECURSIVE GatheredOrder(_, _)
GatheredOrder(c, k) ==
  IF k >= world_size THEN <<>>
  ELSE [i \in 1..BatchSize |-> Local(k, c)[i].v] \o GatheredOrder(c, k + 1)

\* C7 (as stated): whenever the sentence-level loss is computed across W > 1
\* cooperating processes with N local examples each, the similarity matrix
\* has W*N rows and W*N columns and row i's label is column i.
C7_AlwaysGathered ==
  \A r \in Ranks :
    (dist_initialized /\ world_size > 1 /\ pc[r] = "done") =>
      /\ Len(sim[r]) = world_size * BatchSize
      /\ \A i \in 1..Len(sim[r]) : Len(sim[r][i]) = world_size * BatchSize
      /\ labels[r] = [i \in 1..(world_size * BatchSize) |-> i - 1]

\* C7 (amended): when the loss is computed in a process group while training
\* (is_training), the embeddings of all W processes are gathered first: the
\* matrix is W*N by W*N over the gathered ordering and row i's label is
\* column i; when not training nothing is gathered and the matrix is N by N.
C7_GatheredWhenTraining ==
  \A r \in Ranks :
    pc[r] = "done" =>
      LET n == IF dist_initialized /\ is_training
               THEN world_size * BatchSize ELSE BatchSize
      IN  /\ Len(sim[r]) = n
          /\ \A i \in 1..Len(sim[r]) : Len(sim[r][i]) = n
          /\ labels[r] = [i \in 1..n |-> i - 1]
          /\ (dist_initialized /\ is_training) =>
               \E g1 \in {GatheredOrder(1, 0)}, g2 \in {GatheredOrder(2, 0)} :
                 \A i \in 1..n, j \in 1..n :
                   sim[r][i][j].cos = cosine_similarity(g1[j], g2[i])

\* a training process group of two has computed its losses
C7_Witness ==
  /\ dist_initialized /\ is_training /\ world_size >= 2
  /\ \A r \in Ranks : pc[r] = "done"

\* C8: in compute_loss_simclr the label of row i is i and entry (i, i) is the
\* similarity of example i's anchor and its own variant; so one and the same
\* permutation of the anchor batch and of the variant batch leaves the loss
\* unchanged (outside a process group rank k > 0 holds rank 0's batch
\* reordered by perm on both sides).
C8_PermutationInvariant ==
  /\ \A r \in Ranks :
       pc[r] = "done" =>
         /\ labels[r] = [i \in 1..Len(sim[r]) |-> i - 1]
         /\ \A i \in 1..Len(sim[r]) :
              /\ sim[r][i][labels[r][i] + 1] = sim[r][i][i]
              /\ sim[r][i][i] =
                   [cos |-> cosine_similarity(x1[r][i].v, x2[r][i].v), temp |-> temp]
  /\ ~ dist_initialized =>
       \A r \in Ranks :
         (pc[0] = "done" /\ pc[r] = "done") => loss[r] = loss[0]

\* the same batch in two orders, not the same similarity matrix, both losses
\* computed
C8_Witness ==
  /\ ~ dist_initialized
  /\ world_size >= 2
  /\ pc[0] = "done" /\ pc[1] = "done"
  /\ perm # [i \in 1..BatchSize |-> i]
  /\ sim[0] # sim[1]
  /\ \E i, j \in 1..BatchSize : sim[0][i][j] # sim[0][j][i]

-----------------------------------------------------------------------------
(* The contrastive forward pass and the token-level loss (simcse/models.py) *)

MaxPairs == 2        \* pairs the first example supplies at most

\* ModelArguments.coeff_loss_token, in tenths (default 0.1)
coeff_loss_token == 1

\* token ids: two below the cutoff of the token-level loss, one at it
Toks == {5, 7, 10}

\* token positions of a view
Positions == {0, 1}

Rows == [1..Cardinality(Positions) -> Toks]

Reverse(s) == [i \in 1..Len(s) |-> s[Len(s) + 1 - i]]

\* the pairs (p, q) an example may supply
PairChoices == {<<p, p>> : p \in Positions} \cup {<<0, 1>>}

\* the lists of at most n pairs out of the choices C
PairLists(C, n) == UNION {[1..m -> C] : m \in 0..n}

\* an optional value: None, or the value wrapped
None == <<>>

Some(x) == <<x>>

\* the embedding layer of the external encoder on one row
Embeddings(ids, mask) == [p \in 1..Len(ids) |-> <<ids[p], p, 0, mask[p]>>]

\* the last layer of the external encoder on one row of the concatenated
\* batch: a hidden state per position, depending on the ids, the mask and
\* (dropout) on the row
Encoder(ids, mask, r) == [p \in 1..Len(ids) |-> <<ids[p], p, r, mask[p]>>]

\* encoder(input_ids, attention_mask=..., return_dict=True) on a batch of rows
EncoderOutput(ids, mask) ==
  [last_hidden_state |-> [r \in 1..Len(ids) |-> Encoder(ids[r], mask[r], r)],
   hidden_states |->
     IF output_hidden_states
     THEN Some(<<[r \in 1..Len(ids) |-> Embeddings(ids[r], mask[r])],
                 [r \in 1..Len(ids) |-> Encoder(ids[r], mask[r], r)]>>)
     ELSE None]

\* cls.mlp, the projection applied to every hidden state
Mlp(h) == [p \in 1..Len(h) |-> <<h[p][1] + h[p][3], h[p][2]>>]

\* (a variant that flattens the two views example by example)
ConcatViewsInterleaved(x) ==
  [r \in 1..(2 * Len(x)) |-> x[(r + 1) \div 2][2 - (r % 2)]]

\* torch.cat([x[:, 0], x[:, 1]]): the anchor views, then the variant views
ConcatViews(x) ==
  [r \in 1..(2 * Len(x)) |-> IF r <= Len(x) THEN x[r][1] ELSE x[r - Len(x)][2]]

\* compute_representation: one encoder pass over the concatenated views,
\* split back into the two outputs
compute_representation(ids) ==
  LET batch_size == Len(ids)
      enc    == EncoderOutput(ConcatViews(ids), ConcatViews(attention_mask))
      token  == [r \in 1..(2 * batch_size) |-> Mlp(enc.last_hidden_state[r])]
      First(x)  == SubSeq(x, 1, batch_size)
      Second(x) == SubSeq(x, batch_size + 1, 2 * batch_size)
  IN  <<[last_hidden_state |-> First(enc.last_hidden_state),
         hidden_states     |-> IF enc.hidden_states # None
                               THEN Some([l \in 1..Len(enc.hidden_states[1]) |->
                                            First(enc.hidden_states[1][l])])
                               ELSE None,
         token_output      |-> First(token)],
        [last_hidden_state |-> Second(enc.last_hidden_state),
         hidden_states     |-> IF enc.hidden_states # None
                               THEN Some([l \in 1..Len(enc.hidden_states[1]) |->
                                            Second(enc.hidden_states[1][l])])
                               ELSE None,
         token_output      |-> Second(token)]>>

RECURSIVE PairRecords(_, _)
\* batch_idx, seq_idx1, seq_idx2 concatenated over the examples b, b + 1, ...:
\* one record per supplied pair, in order
PairRecords(ps, b) ==
  IF b > Len(ps) THEN <<>>
  ELSE [i \in 1..Len(ps[b]) |-> [b |-> b - 1, p |-> ps[b][i][1], q |-> ps[b][i][2]]]
         \o PairRecords(ps, b + 1)

\* input_ids1[batch_idx, seq_idx1] and input_ids2[batch_idx, seq_idx2]
PairLeft(ids, ps) ==
  LET rs == PairRecords(ps, 1)
  IN  [k \in 1..Len(rs) |-> ids[rs[k].b + 1][1][rs[k].p + 1]]

PairRight(ids, ps) ==
  LET rs == PairRecords(ps, 1)
  IN  [k \in 1..Len(rs) |-> ids[rs[k].b + 1][2][rs[k].q + 1]]

\* (a variant that checks the pairs only when the token loss is enabled)
ChecksPairsIfTokenLoss == pairs_given /\ loss_token

\* cl_forward checks the pairs if pairs is not None
ChecksPairs == pairs_given

\* (a variant that takes the pairs as supplied whether they are or not)
PairsSuppliedAlways == TRUE

\* the token-level term asserts pairs is not None
PairsSupplied == pairs_given

\* (a variant whose cutoff admits the id 10)
BelowCutoffInclusive(t) == t <= 10

\* sorted_token < 10
BelowCutoff(t) == t < 10

\* the orders torch.sort (not stable) may return for toks: sorted_indice
SortIndices(toks) ==
  {f \in Perms(Len(toks)) :
     \A i, j \in 1..Len(toks) : i < j => toks[f[i]] <= toks[f[j]]}

\* x[sorted_indice]
Index(x, idx) == [k \in 1..Len(idx) |-> x[idx[k]]]

\* (a variant that leaves output2 in the order of the pairs)
Output2Unsorted(o2, idx) == o2

\* output2[sorted_indice]
Output2Sorted(o2, idx) == Index(o2, idx)

RECURSIVE Masked(_, _, _)
\* x[sorted_token_mask]: the entries of x, from the i-th on, at the places
\* where the sorted token passes the cutoff mask
Masked(x, sorted_token, i) ==
  IF i > Len(x) THEN <<>>
  ELSE (IF BelowCutoff(sorted_token[i]) THEN <<x[i]>> ELSE <<>>)
         \o Masked(x, sorted_token, i + 1)

\* torch.unique(sorted_token, sorted=True, return_counts=True)[1]: how often
\* each distinct value occurs, the values ascending
UniqueCounts(toks) ==
  LET vals == {toks[i] : i \in 1..Len(toks)}
  IN  [k \in 1..Cardinality(vals) |->
         Cardinality({i \in 1..Len(toks) : toks[i] = KthOf(vals, k - 1)})]

RECURSIVE Split(_, _)
\* torch.split(x, counts)
Split(s, counts) ==
  IF counts = <<>> THEN <<>>
  ELSE <<SubSeq(s, 1, Head(counts))>>
         \o Split(SubSeq(s, Head(counts) + 1, Len(s)), Tail(counts))

FwdInit ==
  /\ \E a \in Rows, b \in {<<5, 7>>, <<10, 5>>}, rev \in BOOLEAN :
       input_ids = << <<a, IF rev THEN Reverse(a) ELSE a>>, <<b, b>> >>
  /\ attention_mask = [b \in 1..Len(input_ids) |-> <<<<1, 1>>, <<1, 1>>>>]
  /\ output_hidden_states = TRUE
  /\ pairs_given \in BOOLEAN
  /\ IF pairs_given
     THEN \E l1 \in PairLists(PairChoices, MaxPairs),
             l2 \in PairLists({<<p, p>> : p \in Positions}, 2) : pairs = <<l1, l2>>
     ELSE pairs = <<>>
  /\ loss_token \in BOOLEAN
  /\ caller \in {"cl_forward", "direct"}
  /\ caller = "direct" => pairs_given /\ ~ loss_token
  /\ fpc = (IF caller = "cl_forward" THEN "start" ELSE "idle")
  /\ tpc = (IF caller = "direct" THEN "called" ELSE "idle")
  /\ outputs = (IF caller = "direct" THEN compute_representation(input_ids) ELSE <<>>)
  /\ encoder_calls = 0
  /\ records = <<>> /\ groups = <<>> /\ tloss = <<>> /\ floss = <<>> /\ error = ""
  /\ DataIdle
  /\ LossIdle
  /\ CfgIdle

\* cl_forward up to the assertion on the pairs
CheckPairs ==
  /\ fpc = "start"
  /\ IF ChecksPairs /\ PairLeft(input_ids, pairs) # PairRight(input_ids, pairs)
     THEN fpc' = "failed" /\ error' = "AssertionError"
     ELSE fpc' = "checked" /\ error' = error
  /\ UNCHANGED <<input_ids, attention_mask, output_hidden_states, pairs_given,
                 pairs, loss_token, caller, encoder_calls, outputs, tpc,
                 records, groups, tloss, floss, dataVars, lossVars, cfgVars>>

\* cl_forward: compute_representation, the one encoder pass
ComputeRepresentation ==
  /\ fpc = "checked"
  /\ outputs' = compute_representation(input_ids)
  /\ encoder_calls' = encoder_calls + 1
  /\ fpc' = "encoded"
  /\ UNCHANGED <<input_ids, attention_mask, output_hidden_states, pairs_given,
                 pairs, loss_token, caller, tpc, records, groups, tloss,
                 floss, error, dataVars, lossVars, cfgVars>>

\* cl_forward: loss = 0, and the token-level term if model_args.loss_token
StartLoss ==
  /\ fpc = "encoded"
  /\ IF ~ loss_token
     THEN fpc' = "done" /\ floss' = <<0>> /\ tpc' = tpc /\ error' = error
     ELSE IF ~ PairsSupplied
     THEN fpc' = "failed" /\ error' = "AssertionError" /\ floss' = floss /\ tpc' = tpc
     ELSE fpc' = "in_token" /\ tpc' = "called" /\ floss' = floss /\ error' = error
  /\ UNCHANGED <<input_ids, attention_mask, output_hidden_states, pairs_given,
                 pairs, loss_token, caller, encoder_calls, outputs, records,
                 groups, tloss, dataVars, lossVars, cfgVars>>

\* compute_loss_simclr_token up to the assertion that the paired ids agree
TokenIndex ==
  /\ tpc = "called"
  /\ LET rs    == PairRecords(pairs, 1)
         left  == PairLeft(input_ids, pairs)
         right == PairRight(input_ids, pairs)
     IN  IF Len(pairs) # Len(input_ids) \/ left # right
         THEN tpc' = "failed" /\ error' = "AssertionError" /\ records' = records
         ELSE /\ tpc' = "indexed"
              /\ error' = error
              /\ records' =
                   [k \in 1..Len(rs) |->
                      [k   |-> k,
                       b   |-> rs[k].b,
                       tok |-> left[k],
                       o1  |-> outputs[1].token_output[rs[k].b + 1][rs[k].p + 1],
                       o2  |-> outputs[2].token_output[rs[k].b + 1][rs[k].q + 1]]]
  /\ UNCHANGED <<input_ids, attention_mask, output_hidden_states, pairs_given,
                 pairs, loss_token, caller, fpc, encoder_calls, outputs,
                 groups, tloss, floss, dataVars, lossVars, cfgVars>>

\* entry i of group g is entry i of the g-th part of each split
ZipGroups(indice, batch_idx, token, output1, output2) ==
  [g \in 1..Len(token) |-> [i \in 1..Len(token[g]) |->
     [k   |-> indice[g][i],
      b   |-> batch_idx[g][i],
      tok |-> token[g][i],
      o1  |-> output1[g][i],
      o2  |-> output2[g][i]]]]

\* compute_loss_simclr_token: sort by token id, then mask by the cutoff and
\* split into one group per distinct token id the batch indices and the two
\* outputs, each on its own (k is the entry of sorted_indice: the pair record
\* the sorted token came from)
TokenGroup ==
  /\ tpc = "indexed"
  /\ \E sorted_indice \in SortIndices([k \in 1..Len(records) |-> records[k].tok]) :
     \E sorted_token \in {[k \in 1..Len(records) |-> records[sorted_indice[k]].tok]} :
     \E counts \in {UniqueCounts(Masked(sorted_token, sorted_token, 1))} :
       LET Column(c) == [k \in 1..Len(records) |-> records[k][c]]
           Groups(x) == Split(Masked(x, sorted_token, 1), counts)
       IN  groups' = ZipGroups(Groups(sorted_indice),
                               Groups(Index(Column("b"), sorted_indice)),
                               Groups(sorted_token),
                               Groups(Index(Column("o1"), sorted_indice)),
                               Groups(Output2Sorted(Column("o2"), sorted_indice)))
  /\ tpc' = "grouped"
  /\ UNCHANGED <<input_ids, attention_mask, output_hidden_states, pairs_given,
                 pairs, loss_token, caller, fpc, encoder_calls, outputs,
                 records, tloss, floss, error, dataVars, lossVars, cfgVars>>

\* the similarity matrix of a group, as SimMatrix but over plain vectors
GroupSim(g) ==
  [i \in 1..Len(g) |-> [j \in 1..Len(g) |->
     [cos |-> cosine_similarity(g[j].o1, g[i].o2), temp |-> temp]]]

\* the cross entropy of a group's similarity matrix under its diagonal labels
GroupLoss(s) == cross_entropy(s, Labels(s))

\* compute_loss_simclr_token: per-group similarity, labels and cross entropy,
\* stacked and averaged; torch.stack raises on an empty list
TokenLoss ==
  /\ tpc = "grouped"
  /\ IF groups = <<>>
     THEN tpc' = "failed" /\ error' = "RuntimeError" /\ tloss' = tloss
     ELSE /\ tpc' = "done"
          /\ error' = error
          /\ tloss' = <<BagOfSeq([g \in 1..Len(groups) |->
                                     GroupLoss(GroupSim(groups[g]))])>>
  /\ UNCHANGED <<input_ids, attention_mask, output_hidden_states, pairs_given,
                 pairs, loss_token, caller, fpc, encoder_calls, outputs,
                 records, groups, floss, dataVars, lossVars, cfgVars>>

\* cl_forward: the token-level loss returns (or raises) and cl_forward with it
Return ==
  /\ fpc = "in_token"
  /\ \/ /\ tpc = "done"
        /\ floss' = <<[coeff |-> coeff_loss_token, token |-> tloss[1]]>>
        /\ fpc' = "done"
     \/ /\ tpc = "failed"
        /\ floss' = floss
        /\ fpc' = "failed"
  /\ UNCHANGED <<input_ids, attention_mask, output_hidden_states, pairs_given,
                 pairs, loss_token, caller, encoder_calls, outputs, tpc,
                 records, groups, tloss, error, dataVars, lossVars, cfgVars>>

FwdNext ==
  \/ CheckPairs
  \/ ComputeRepresentation
  \/ StartLoss
  \/ TokenIndex
  \/ TokenGroup
  \/ TokenLoss
  \/ Return

-----------------------------------------------------------------------------
(* Properties of the forward pass and of the token-level loss *)

\* the groups have been built
Grouped == tpc \in {"grouped", "done"} \/ (tpc = "failed" /\ error = "RuntimeError")

\* the places (g, i) of the groups
GroupPlaces ==
  {<<g, i>> \in (1..Len(groups)) \X (1..Len(records)) : i <= Len(groups[g])}

\* C9: the groups partition, by token id, exactly the pair records (of the
\* whole batch) whose token id is below the cutoff 10: each such record is in
\* exactly one group, a group holds one token id, records with the same id
\* share a group even across examples, no record with id >= 10 is in a group.
C9_GroupsPartition ==
  Grouped =>
    /\ \A g \in 1..Len(groups) :
         /\ Len(groups[g]) >= 1
         /\ \A i \in 1..Len(groups[g]) :
              /\ groups[g][i].tok = groups[g][1].tok
              /\ groups[g][i].tok < 10
    /\ \A g, h \in 1..Len(groups) : g < h => groups[g][1].tok < groups[h][1].tok
    /\ \A k \in 1..Len(records) :
         LET at == {pl \in GroupPlaces : groups[pl[1]][pl[2]].k = k}
         IN  IF records[k].tok < 10
             THEN /\ Cardinality(at) = 1
                  /\ \A pl \in at : groups[pl[1]][pl[2]] = records[k]
             ELSE at = {}
    /\ \A pl \in GroupPlaces : groups[pl[1]][pl[2]].k \in 1..Len(records)

\* two groups, one of them with records of both examples, and a record at the
\* cutoff left out
C9_Witness ==
  /\ Grouped
  /\ Len(groups) >= 2
  /\ \E g \in 1..Len(groups) : \E i, j \in 1..Len(groups[g]) :
       groups[g][i].b # groups[g][j].b
  /\ \E k \in 1..Len(records) : records[k].tok = 10

\* some supplied pair (p, q) of some example b has differing ids
Mismatch ==
  /\ pairs_given
  /\ \E b \in 1..Len(pairs) : \E i \in 1..Len(pairs[b]) :
       input_ids[b][1][pairs[b][i][1] + 1] # input_ids[b][2][pairs[b][i][2] + 1]

\* C10: if a supplied pair has differing ids, the call fails with an
\* assertion and returns no loss: cl_forward before the encoder is invoked,
\* token loss enabled or not, and compute_loss_simclr_token (called on its
\* own) before any group or similarity is computed.
C10_MismatchFatal ==
  Mismatch =>
    /\ caller = "cl_forward" =>
         /\ fpc \in {"start", "failed"}
         /\ fpc = "failed" => error = "AssertionError"
         /\ encoder_calls = 0 /\ outputs = <<>> /\ floss = <<>>
         /\ tpc = "idle"
    /\ caller = "direct" =>
         /\ tpc \in {"called", "failed"}
         /\ tpc = "failed" => error = "AssertionError"
         /\ records = <<>> /\ groups = <<>> /\ tloss = <<>>

\* cl_forward has failed on a mismatching pair with the token loss disabled
C10_Witness ==
  /\ Mismatch
  /\ caller = "cl_forward"
  /\ ~ loss_token
  /\ fpc = "failed"
  /\ error = "AssertionError"

\* cl_forward was called without a Pair Index Set
NoPairs == caller = "cl_forward" /\ ~ pairs_given

\* C11: with the token loss enabled, a cl_forward call without pairs never
\* reaches the token-level loss nor returns a loss, and where it ends it has
\* failed with an assertion; with the token loss disabled, a call without
\* pairs never fails and, where it ends, has returned a loss.
C11_PairsRequired ==
  NoPairs =>
    IF loss_token
    THEN /\ fpc \in {"start", "checked", "encoded", "failed"}
         /\ fpc = "failed" <=> error = "AssertionError"
         /\ floss = <<>> /\ tpc = "idle" /\ tloss = <<>>
    ELSE /\ fpc \in {"start", "checked", "encoded", "done"}
         /\ error = ""
         /\ fpc = "done" <=> floss # <<>>

\* a call without pairs has failed at the token-level term, after the encoder
\* pass, and no loss came back
C11_Witness ==
  /\ NoPairs
  /\ loss_token
  /\ fpc = "failed"
  /\ error = "AssertionError"
  /\ encoder_calls = 1
  /\ floss = <<>>

\* the token-level loss is given pairs, one list per example and ids that
\* agree, none of which selects a token id below the cutoff (the lists may
\* all be empty)
Degenerate ==
  /\ pairs_given
  /\ Len(pairs) = Len(input_ids)
  /\ ~ Mismatch
  /\ \A k \in 1..Len(PairLeft(input_ids, pairs)) : PairLeft(input_ids, pairs)[k] >= 10

\* C12 (as stated): on degenerate token-level input compute_loss_simclr_token
\* does not raise: nothing fails, and once the groups are built a loss value
\* comes back.
C12_DegenerateRecovered ==
  Degenerate =>
    /\ tpc # "failed"
    /\ fpc # "failed"
    /\ error = ""

\* what the code does on that input: the list of per-group losses is empty
\* and stacking it raises
C12_DegenerateRaises ==
  /\ Degenerate
  /\ \A b \in 1..Len(pairs) : pairs[b] = <<>>
  /\ groups = <<>>
  /\ tpc = "failed"
  /\ error = "RuntimeError"
  /\ tloss = <<>>

\* C13 (as stated): the loss cl_forward returns is the sentence-level loss of
\* the batch when the token loss is disabled, and has the sentence-level term
\* beside coeff_loss_token times the token-level loss when it is enabled; it
\* is never the constant the accumulation starts from.
C13_LossOfBatch ==
  (caller = "cl_forward" /\ fpc = "done") =>
    IF loss_token
    THEN DOMAIN floss[1] = {"sentence", "coeff", "token"}
    ELSE floss[1] # 0

\* what the code does with the token loss disabled: after the encoder pass it
\* returns the constant 0, whatever the batch
C13_ConstantLoss ==
  /\ caller = "cl_forward"
  /\ ~ loss_token
  /\ fpc = "done"
  /\ encoder_calls = 1
  /\ floss = <<0>>

-----------------------------------------------------------------------------
(* compute_representation on its own *)

\* rows of two positions over two token ids
RepRows == [1..2 -> {5, 7}]

\* attention masks of a row: nothing padded, or the last position padded
RepMasks == {<<1, 1>>, <<1, 0>>}

RepInit ==
  /\ \E n \in 1..MaxBatch :
       /\ input_ids \in [1..n -> RepRows \X RepRows]
       /\ \E m \in [1..n -> RepMasks] :
            attention_mask = [b \in 1..n |-> <<m[b], <<1, 1>>>>]
  /\ output_hidden_states \in BOOLEAN
  /\ caller = "compute_representation"
  /\ fpc = "rep_called"
  /\ pairs_given = FALSE /\ pairs = <<>> /\ loss_token = FALSE
  /\ encoder_calls = 0 /\ outputs = <<>> /\ tpc = "idle"
  /\ records = <<>> /\ groups = <<>> /\ tloss = <<>> /\ floss = <<>> /\ error = ""
  /\ DataIdle
  /\ LossIdle
  /\ CfgIdle

\* compute_representation(encoder, mlp, input_ids, attention_mask, None)
Represent ==
  /\ fpc = "rep_called"
  /\ outputs' = compute_representation(input_ids)
  /\ encoder_calls' = encoder_calls + 1
  /\ fpc' = "rep_done"
  /\ UNCHANGED <<input_ids, attention_mask, output_hidden_states, pairs_given,
                 pairs, loss_token, caller, tpc, records, groups, tloss, floss,
                 error, dataVars, lossVars, cfgVars>>

RepNext == Represent

\* what the encoder and the projection give for view v of example i when it
\* is row r of the pass
RowOutput(i, v, r) ==
  [last    |-> Encoder(input_ids[i][v], attention_mask[i][v], r),
   first   |-> Embeddings(input_ids[i][v], attention_mask[i][v]),
   token   |-> Mlp(Encoder(input_ids[i][v], attention_mask[i][v], r))]

\* row i of output o is what the pass gives for view v of example i as row r
Aligned(o, i, v, r) ==
  /\ o.last_hidden_state[i] = RowOutput(i, v, r).last
  /\ o.token_output[i] = RowOutput(i, v, r).token
  /\ IF output_hidden_states
     THEN /\ Len(o.hidden_states) = 1
          /\ Len(o.hidden_states[1]) = 2
          /\ o.hidden_states[1][1][i] = RowOutput(i, v, r).first
          /\ o.hidden_states[1][2][i] = RowOutput(i, v, r).last
     ELSE o.hidden_states = None

\* C16: compute_representation runs the encoder once, on the N anchor views
\* followed by the N variant views, and row i of the first output is the
\* result for input_ids[i, 0] (row i of the pass), row i of the second the
\* result for input_ids[i, 1] (row N + i of the pass), in last_hidden_state,
\* in every layer of hidden_states and in token_output; hidden_states is None
\* in both outputs when the encoder returns none.
C16_ViewsAligned ==
  (caller = "compute_representation" /\ fpc = "rep_done") =>
    /\ encoder_calls = 1
    /\ Len(outputs) = 2
    /\ \A o \in 1..2 :
         /\ Len(outputs[o].last_hidden_state) = Len(input_ids)
         /\ Len(outputs[o].token_output) = Len(input_ids)
    /\ \A i \in 1..Len(input_ids) :
         /\ Aligned(outputs[1], i, 1, i)
         /\ Aligned(outputs[2], i, 2, Len(input_ids) + i)

\* a batch of two examples, all four views different, has been represented
\* with the hidden states returned
C16_Witness ==
  /\ caller = "compute_representation"
  /\ fpc = "rep_done"
  /\ Len(input_ids) = 2
  /\ output_hidden_states
  /\ Cardinality({input_ids[i][v] : i \in 1..2, v \in 1..2}) = 4
  /\ attention_mask[2][1] = <<1, 0>>

-----------------------------------------------------------------------------
(* Alignment of the token-level groups *)

\* C17: after the sort, the mask and the split, entry i of a group holds the
\* anchor embedding, the variant embedding and the batch index of one and the
\* same pair record (b, p, q): the embeddings are token_output of example b
\* at p in the anchor view and at q in the variant view, and the group's
\* similarity matrix has on its diagonal, where row i's label points, the
\* similarity of that record's own two embeddings.
C17_GroupsAligned ==
  Grouped =>
    \A g \in 1..Len(groups) :
      /\ \A i \in 1..Len(groups[g]) :
           LET e == groups[g][i]
               r == PairRecords(pairs, 1)[e.k]
           IN  /\ e.b = r.b
               /\ e.tok = input_ids[r.b + 1][1][r.p + 1]
               /\ e.o1 = outputs[1].token_output[r.b + 1][r.p + 1]
               /\ e.o2 = outputs[2].token_output[r.b + 1][r.q + 1]
               /\ GroupSim(groups[g])[i][Labels(GroupSim(groups[g]))[i] + 1].cos
                    = cosine_similarity(
                        outputs[1].token_output[r.b + 1][r.p + 1],
                        outputs[2].token_output[r.b + 1][r.q + 1])
      /\ \A i, j \in 1..Len(groups[g]) : i # j => groups[g][i].k # groups[g][j].k

\* a group of records of both examples that the sort has put in another order
\* than the pairs came in, next to a record the mask has dropped
C17_Witness ==
  /\ Grouped
  /\ \E g \in 1..Len(groups) : \E i, j \in 1..Len(groups[g]) :
       /\ i < j
       /\ groups[g][i].k > groups[g][j].k
       /\ groups[g][i].b # groups[g][j].b
  /\ \E k \in 1..Len(records) : records[k].tok = 10

-----------------------------------------------------------------------------
(* Configuration: DataTrainingArguments (src/scripts/run_train.py) and the  *)
(* Pooler (simcse/models.py)                                                *)

MaxPathLen == 3      \* characters of a train_file path at most

\* the characters of a path: the separator, the dot, a letter, and the
\* letters of csv, json and txt taken as one character each
Chars == {"/", ".", "a", "csv", "json", "txt"}

Paths == UNION {[1..n -> Chars] : n \in 0..MaxPathLen}

\* p.rfind(c), counted from 1: 0 when c does not occur
RFind(p, c) ==
  IF \E i \in 1..Len(p) : p[i] = c
  THEN CHOOSE i \in 1..Len(p) : p[i] = c /\ \A j \in (i + 1)..Len(p) : p[j] # c
  ELSE 0

\* (a variant that cuts at the last dot wherever it stands)
SplitLastDot(p) ==
  IF RFind(p, ".") > 0
  THEN <<SubSeq(p, 1, RFind(p, ".") - 1), SubSeq(p, RFind(p, "."), Len(p))>>
  ELSE <<p, <<>>>>

\* os.path.splitext(p): the extension starts at the last dot of the last
\* component, unless only dots stand before it in that component
splitext(p) ==
  LET sepIndex == RFind(p, "/")
      dotIndex == RFind(p, ".")
  IN  IF /\ dotIndex > sepIndex
         /\ \E filenameIndex \in (sepIndex + 1)..(dotIndex - 1) : p[filenameIndex] # "."
      THEN <<SubSeq(p, 1, dotIndex - 1), SubSeq(p, dotIndex, Len(p))>>
      ELSE <<p, <<>>>>

\* the extensions __post_init__ accepts
Extensions == {<<".", "csv">>, <<".", "json">>, <<".", "txt">>}

NoTrainFile == "AssertionError: No --train_file is set"

BadExtension == "AssertionError: train_file should be a csv, a json or a txt file."

UnrecognizedPooler == "AssertionError: unrecognized pooling type"

\* the pooling names Pooler.__init__ accepts
PoolerTypes == {"cls", "cls_before_pooler", "avg", "avg_top2", "avg_first_last"}

\* the names a configuration may give
PoolerNames == PoolerTypes \cup {"max", "CLS", ""}

\* (a variant that accepts every name)
RecognizedAny(t) == TRUE

\* self.pooler_type in [...]
Recognized(t) == t \in PoolerTypes

\* the encoder's layers on one row of two positions: the embeddings, the
\* layer before the last, the last
PoolLayers == << <<1, 2>>, <<3, 5>>, <<4, 6>> >>

\* the outputs Pooler.forward is given
PoolOutputs(with_hidden) ==
  [last_hidden_state |-> PoolLayers[3],
   hidden_states     |-> IF with_hidden THEN Some(PoolLayers) ELSE None,
   token_output      |-> <<7, 8>>]

\* (hidden * attention_mask).sum(dim=1) / attention_mask.sum(dim=1), as a
\* fraction; half is TRUE where hidden is a sum of two layers divided by 2
MaskedMean(hidden, mask, half) ==
  [num |-> SumSeq([p \in 1..Len(hidden) |-> hidden[p] * mask[p]]),
   den |-> (IF half THEN 2 ELSE 1) * SumSeq(mask)]

\* Pooler.forward: the pooled value, or the exception
Forward(t, training, mask, o) ==
  LET hs == o.hidden_states
      Sum(x, y) == [p \in 1..Len(x) |-> x[p] + y[p]]
  IN  CASE t = "cls" ->
             [error |-> "",
              value |-> <<[num |-> (IF training THEN o.token_output[1]
                                    ELSE o.last_hidden_state[1]),
                           den |-> 1]>>]
        [] t = "cls_before_pooler" ->
             [error |-> "", value |-> <<[num |-> o.last_hidden_state[1], den |-> 1]>>]
        [] t = "avg" ->
             [error |-> "", value |-> <<MaskedMean(o.last_hidden_state, mask, FALSE)>>]
        [] t = "avg_first_last" ->
             IF hs = None THEN [error |-> "TypeError", value |-> <<>>]
             ELSE [error |-> "",
                   value |-> <<MaskedMean(Sum(hs[1][1], hs[1][Len(hs[1])]), mask, TRUE)>>]
        [] t = "avg_top2" ->
             IF hs = None THEN [error |-> "TypeError", value |-> <<>>]
             ELSE [error |-> "",
                   value |-> <<MaskedMean(Sum(hs[1][Len(hs[1])], hs[1][Len(hs[1]) - 1]),
                                          mask, TRUE)>>]
        [] OTHER -> [error |-> "NotImplementedError", value |-> <<>>]

CfgInit ==
  /\ train_file_given \in BOOLEAN
  /\ IF train_file_given THEN train_file \in Paths ELSE train_file = <<>>
  /\ pooler_type \in PoolerNames
  /\ cpc = "args"
  /\ pooler = <<>> /\ pooled = <<>> /\ cfg_error = ""
  /\ DataIdle
  /\ LossIdle
  /\ FwdIdle

\* DataTrainingArguments.__post_init__
PostInit ==
  /\ cpc = "args"
  /\ IF ~ train_file_given
     THEN cpc' = "failed" /\ cfg_error' = NoTrainFile
     ELSE IF splitext(train_file)[2] \notin Extensions
     THEN cpc' = "failed" /\ cfg_error' = BadExtension
     ELSE cpc' = "model" /\ cfg_error' = cfg_error
  /\ UNCHANGED <<train_file_given, train_file, pooler_type, pooler, pooled,
                 dataVars, lossVars, fwdVars>>

\* Pooler.__init__, called by cl_init with model_args.pooler_type
PoolerInit ==
  /\ cpc = "model"
  /\ IF Recognized(pooler_type)
     THEN cpc' = "pooler" /\ pooler' = <<[pooler_type |-> pooler_type]>>
          /\ cfg_error' = cfg_error
     ELSE cpc' = "failed" /\ pooler' = pooler /\ cfg_error' = UnrecognizedPooler
  /\ UNCHANGED <<train_file_given, train_file, pooler_type, pooled,
                 dataVars, lossVars, fwdVars>>

\* Pooler.forward(attention_mask, outputs) on the constructed pooler
PoolerForward ==
  /\ cpc = "pooler"
  /\ \E training \in BOOLEAN, with_hidden \in BOOLEAN, mask \in RepMasks :
       LET res == Forward(pooler[1].pooler_type, training, mask,
                          PoolOutputs(with_hidden))
       IN  /\ pooled' = res.value
           /\ cfg_error' = res.error
           /\ cpc' = (IF res.error = "" THEN "pooled" ELSE "failed")
  /\ UNCHANGED <<train_file_given, train_file, pooler_type, pooler,
                 dataVars, lossVars, fwdVars>>

CfgNext ==
  \/ PostInit
  \/ PoolerInit
  \/ PoolerForward

-----------------------------------------------------------------------------
(* Properties of the configuration *)

\* C14: a Pooler is constructed only under one of the five names cls,
\* cls_before_pooler, avg, avg_top2, avg_first_last; under any other name the
\* construction fails with an assertion, no Pooler object comes to exist and
\* nothing is ever pooled; and forward of a constructed Pooler never reaches
\* its branch for unrecognized types.
C14_PoolerRejected ==
  /\ pooler # <<>> =>
       pooler[1].pooler_type \in
         {"cls", "cls_before_pooler", "avg", "avg_top2", "avg_first_last"}
  /\ pooler_type \notin
       {"cls", "cls_before_pooler", "avg", "avg_top2", "avg_first_last"} =>
         /\ cpc \in {"args", "model", "failed"}
         /\ pooler = <<>>
         /\ pooled = <<>>
         /\ (cpc = "failed" /\ train_file_given /\ splitext(train_file)[2] \in Extensions)
              => cfg_error = UnrecognizedPooler
  /\ cfg_error # "NotImplementedError"

\* the construction of a Pooler under an unrecognized name has failed
C14_Witness ==
  /\ pooler_type = "max"
  /\ cpc = "failed"
  /\ cfg_error = UnrecognizedPooler
  /\ pooler = <<>>

\* path p ends in the extension e, after a file name that does not consist
\* of dots only
HasExtension(p, e) ==
  LET n == Len(p) - Len(e)
  IN  /\ n >= 1
      /\ SubSeq(p, n + 1, Len(p)) = e
      /\ \E i \in 1..n :
           /\ p[i] \notin {".", "/"}
           /\ \A j \in i..n : p[j] # "/"

\* __post_init__ has run
ArgsChecked == cpc \notin {"idle", "args"}

\* C15: constructing DataTrainingArguments fails if and only if train_file is
\* None or its extension is none of .csv, .json, .txt; a missing train_file
\* fails on the first check (the extension is never asked of None); with a
\* recognized extension the construction succeeds.
C15_TrainFileChecked ==
  ArgsChecked =>
    /\ cfg_error \in {NoTrainFile, BadExtension} <=>
         (~ train_file_given
            \/ \A e \in {<<".", "csv">>, <<".", "json">>, <<".", "txt">>} :
                 ~ HasExtension(train_file, e))
    /\ cfg_error = NoTrainFile <=> ~ train_file_given
    /\ cfg_error \in {NoTrainFile, BadExtension} => (cpc = "failed" /\ pooler = <<>>)

\* a path that ends in txt without having it as its extension has been
\* turned down
C15_Witness ==
  /\ ArgsChecked
  /\ train_file_given
  /\ train_file # <<>>
  /\ train_file[Len(train_file)] = "txt"
  /\ cfg_error = BadExtension

-----------------------------------------------------------------------------
(* Specifications *)

SpecData == DataInit /\ [][DataNext]_vars

SpecLoss == LossInit /\ [][LossNext]_vars

SpecFwd == FwdInit /\ [][FwdNext]_vars

SpecRep == RepInit /\ [][RepNext]_vars

SpecCfg == CfgInit /\ [][CfgNext]_vars

=============================================================================
